---- MODULE Spec2Model ----
(***************************************************************************)
(* The early-stopping generator of neuralpredictors/training/              *)
(* early_stopping.py as a state machine.  The generator is a single        *)
(* sequential process; pc is its position.  It suspends at the yield in    *)
(* the per-interval loop, where the caller runs one training step (and may *)
(* set the model's mode) before resuming it.                               *)
(***************************************************************************)
EXTENDS Integers, FiniteSets, Sequences, TLC

\* ------------------------------------------------------------------ bounds
MaxInterval == 2
MaxPatience == 2
MaxStart == 1
MaxIter == 5
MaxTolerance == 1
MaxDecaySteps == 2
MaxObjective == 2
ShortWarmup == 2
WarmupEpochs == 5
SchedMaxIter == 7

\* ------------------------------------------------------- objective values
\* A scalar objective: a finite number (integers stand for the floats), NaN,
\* +infinity or -infinity.
Fin(n) == [k |-> "fin", v |-> n]
NaN == [k |-> "nan", v |-> 0]
PosInf == [k |-> "inf", v |-> 1]
NegInf == [k |-> "inf", v |-> -1]
\* The value of a local variable that has not been assigned yet.
Unset == [k |-> "unset", v |-> 0]
\* step() called without an argument.
NoArg == [k |-> "noarg", v |-> 0]

FiniteValues == {Fin(n) : n \in 0..MaxObjective}
NonFiniteValues == {NaN, PosInf, NegInf}
ObjectiveValues == FiniteValues \cup NonFiniteValues

\* Mutant of isfinite: a check for NaN only.
isnotnan(x) == x.k # "nan"

\* np.isfinite(x)
isfinite(x) == x.k = "fin"

\* x * s for a sign s in {-1, 1} (IEEE: NaN stays NaN, infinities flip).
Times(x, s) ==
    IF x.k = "nan" THEN NaN ELSE [k |-> x.k, v |-> x.v * s]

\* x - t for a finite t >= 0 (IEEE: NaN and the infinities absorb t).
Minus(x, t) ==
    IF x.k = "fin" THEN Fin(x.v - t) ELSE x

\* x < y (IEEE: every comparison with NaN is false).
Less(x, y) ==
    CASE x.k = "nan" \/ y.k = "nan" -> FALSE
      [] x.k = "fin" /\ y.k = "fin" -> x.v < y.v
      [] x.k = "fin" /\ y.k = "inf" -> y.v = 1
      [] x.k = "inf" /\ y.k = "fin" -> x.v = -1
      [] OTHER -> x.v < y.v

\* ------------------------------------------------------------- schedulers
SchedulerShapes ==
    {[tuple |-> FALSE, first |-> a, second |-> "None"] :
        a \in {"None", "LambdaLR", "ReduceLROnPlateau"}}
    \cup
    {[tuple |-> TRUE, first |-> a, second |-> b] :
        a \in {"None", "LambdaLR"}, b \in {"None", "LambdaLR", "ReduceLROnPlateau"}}

NoScheduler == [tuple |-> FALSE, first |-> "None", second |-> "None"]

\* ------------------------------------------------------------------ state
VARIABLES
    \* arguments of early_stopping
    interval, patience, start, max_iter, maximize, tolerance, switch_mode,
    restore_best, tracker, scheduler, lr_decay_steps, number_warmup_epochs,
    \* the model: its parameter state and its training flag
    model_state, model_training,
    \* the caller: whether its loop body sets the model's mode
    caller_sets_mode,
    \* locals of the generator
    pc, training_status, epoch, best_objective, current_objective,
    best_state_dict, reduce_lr_on_plateau, warmup, repeat, patience_counter, i,
    \* the tracker and the schedulers, as far as the generator acts on them
    tracker_calls, tracker_last, warmup_steps, main_steps, last_step_arg,
    \* the objective function: how often it has been called
    objective_calls,
    \* history
    top_objective, top_states, ref_objective, ref_state, tracker_nonfinite, decays, decay_loads, final_loads, exhausted,
    warm_epochs, last_eval_epoch, cycle_nonimp, cycle_evals, cycle_ticks, ended,
    last_result, all_improving, total_evals, late_decays, yields,
    \* the value handed to the caller while the generator is suspended
    yielded,
    \* other calls on the tracker, and whether the snapshot shares storage with
    \* the model
    tracker_finalized, snapshot_aliased

args == <<interval, patience, start, max_iter, maximize, tolerance, switch_mode,
          restore_best, tracker, scheduler, lr_decay_steps, caller_sets_mode>>
model == <<model_state, model_training>>
best == <<best_objective, best_state_dict, snapshot_aliased>>
setup == <<training_status, reduce_lr_on_plateau, warmup, number_warmup_epochs>>
trackerv == <<tracker_calls, tracker_last, tracker_nonfinite, tracker_finalized>>
schedv == <<warmup_steps, main_steps, last_step_arg, warm_epochs>>
decayv == <<decays, decay_loads, exhausted, late_decays>>
cyclev == <<cycle_nonimp, cycle_evals, cycle_ticks>>
observed == <<top_objective, top_states, ref_objective, ref_state, last_result,
             all_improving, total_evals>>
yieldv == <<yields, yielded>>
vars == <<args, model, best, setup, trackerv, schedv, decayv, cyclev, pc, epoch,
          current_objective, repeat, patience_counter, i, objective_calls,
          observed, final_loads, last_eval_epoch, ended, yieldv>>

\* ---------------------------------------------------------------- helpers
\* Mutant of sign: the direction of the comparison reversed.
sign_flipped == IF maximize THEN 1 ELSE -1

\* maximize = -1 if maximize else 1
sign == IF maximize THEN -1 ELSE 1

\* copy_state(model): a copy of the model's state dict, sharing no storage with it.
copy_state(m) == m

\* model.load_state_dict(best_state_dict): the model's state after the load.
load_state_dict(m, snapshot) == snapshot

\* _objective(): the model's mode after the call, given its mode before.
ModeAfterObjective(mode, status) == IF switch_mode THEN status ELSE mode

\* Mutant of Improved: the comparison without the tolerance margin.
ImprovedWithoutTolerance(cur, bst) == Less(Times(cur, sign), Times(bst, sign))

\* Mutant of Improved: the comparison of a minimizing run whatever maximize says.
ImprovedNoSign(cur, bst) == Less(cur, Minus(bst, tolerance))

\* current_objective * maximize < best_objective * maximize - tolerance
Improved(cur, bst) == Less(Times(cur, sign), Minus(Times(bst, sign), tolerance))

\* Mutant of WhileCondition: one evaluation more than patience allows.
WhileConditionInclusive == patience_counter <= patience /\ epoch < max_iter

\* Mutant of WhileCondition: the inner loop left one evaluation early.
WhileConditionEarly == patience_counter < patience - 1 /\ epoch < max_iter

\* Mutant of WhileCondition: the inner loop not bounded by max_iter.
WhileConditionNoMaxIter == patience_counter < patience

\* while patience_counter < patience and epoch < max_iter
WhileCondition == patience_counter < patience /\ epoch < max_iter

\* Mutant of DecayCondition: no decay transition after the last cycle.
DecayConditionNotLast ==
    epoch < max_iter /\ lr_decay_steps > 1 /\ repeat < lr_decay_steps - 1

\* (epoch < max_iter) & (lr_decay_steps > 1) & (repeat < lr_decay_steps)
DecayCondition == epoch < max_iter /\ lr_decay_steps > 1 /\ repeat < lr_decay_steps

\* Mutant of copy_shares_storage: the entries of the state dict stored as they are.
copy_shares_storage_shallow == TRUE

\* copy_state: whether an entry of the copy shares storage with the model's
\* (v.cpu() of a CUDA tensor, v.clone() and copy.deepcopy(v) all allocate).
copy_shares_storage == FALSE

\* Mutant of Yielded: the best objective handed out in place of the current one.
YieldedBest(e, obj) == [epoch |-> e, objective |-> best_objective]

\* yield epoch, current_objective
Yielded(e, obj) == [epoch |-> e, objective |-> obj]

\* Nothing is being handed to the caller: the generator is running.
NoYield == [epoch |-> 0, objective |-> Unset]

\* The parameter state the caller's training step leaves behind at the tick of
\* epoch e: a state the model has not been in before.
TrainedState(e) == e - start

\* ------------------------------------------------------------------- init
\* Everything but the arguments: the generator has been created and not yet
\* advanced; the model is in its initial parameter state.
Created ==
    /\ model_state = 0
    /\ pc = "start"
    /\ training_status = model_training
    /\ epoch = start
    /\ best_objective = Unset /\ current_objective = Unset
    /\ best_state_dict = 0
    /\ reduce_lr_on_plateau = FALSE /\ warmup = FALSE
    /\ repeat = 0 /\ patience_counter = 0 /\ i = 0
    /\ tracker_calls = 0 /\ tracker_last = Unset /\ tracker_nonfinite = 0
    /\ warmup_steps = 0 /\ main_steps = 0 /\ last_step_arg = NoArg
    /\ objective_calls = 0
    /\ top_objective = Unset /\ top_states = {}
    /\ ref_objective = Unset /\ ref_state = 0
    /\ decays = 0 /\ decay_loads = 0 /\ final_loads = 0 /\ exhausted = 0
    /\ warm_epochs = {} /\ last_eval_epoch = 0
    /\ cycle_nonimp = TRUE /\ cycle_evals = 0 /\ cycle_ticks = 0
    /\ ended = "no"
    /\ last_result = Unset /\ all_improving = TRUE /\ total_evals = 0
    /\ late_decays = 0 /\ yields = 0 /\ yielded = NoYield
    /\ tracker_finalized = FALSE /\ snapshot_aliased = FALSE

\* The patience / decay / restore machine: no scheduler, and a caller that
\* leaves the model's mode alone.
Init ==
    /\ interval \in 1..MaxInterval
    /\ patience \in 0..MaxPatience
    /\ start \in {0, MaxStart}
    /\ max_iter \in {0, MaxIter - 1, MaxIter}
    /\ maximize \in BOOLEAN
    /\ tolerance \in {0, MaxTolerance}
    /\ switch_mode = TRUE
    /\ restore_best \in BOOLEAN
    /\ tracker \in BOOLEAN
    /\ scheduler = NoScheduler
    /\ lr_decay_steps \in 0..MaxDecaySteps
    /\ number_warmup_epochs = 0
    /\ model_training = TRUE
    /\ caller_sets_mode = FALSE
    /\ Created

\* The mode switch around the objective: either setting of switch_mode, either
\* initial mode, and a caller that may set the mode in its loop body.
InitMode ==
    /\ interval \in 1..MaxInterval
    /\ patience \in 1..MaxPatience
    /\ start = 0
    /\ max_iter = MaxIter
    /\ maximize = TRUE
    /\ tolerance = 0
    /\ switch_mode \in BOOLEAN
    /\ restore_best \in BOOLEAN
    /\ tracker = FALSE
    /\ scheduler = NoScheduler
    /\ lr_decay_steps \in 0..MaxDecaySteps
    /\ number_warmup_epochs = 0
    /\ model_training \in BOOLEAN
    /\ caller_sets_mode \in BOOLEAN
    /\ Created

\* The scheduler hand-off: every shape of the scheduler argument, with none,
\* a short and the five-epoch warm-up of the scenario.
InitSched ==
    /\ interval \in 1..MaxInterval
    /\ patience \in 1..MaxPatience
    /\ start = 0
    /\ max_iter \in {MaxIter, SchedMaxIter}
    /\ maximize = TRUE
    /\ tolerance = 0
    /\ switch_mode = TRUE
    /\ restore_best = TRUE
    /\ tracker = FALSE
    /\ scheduler \in SchedulerShapes
    /\ lr_decay_steps \in 1..MaxDecaySteps
    /\ number_warmup_epochs \in {0, ShortWarmup, WarmupEpochs}
    /\ model_training = TRUE
    /\ caller_sets_mode = FALSE
    /\ Created

\* ---------------------------------------------------------------- actions
\* finalize(model, best_state_dict): two objective calls, and the load if
\* restore_best.
finalize ==
    /\ objective_calls' = objective_calls + 2
    /\ model_training' = ModeAfterObjective(model_training, training_status)
    /\ model_state' = IF restore_best
                        THEN load_state_dict(model_state, best_state_dict)
                        ELSE model_state
    /\ final_loads' = IF restore_best THEN final_loads + 1 ELSE final_loads
    /\ pc' = "done"

\* Mutant of decay_lr: the best state loaded whatever restore_best says.
decay_lr_unconditional ==
    /\ objective_calls' = objective_calls + 2
    /\ model_training' = ModeAfterObjective(model_training, training_status)
    /\ model_state' = load_state_dict(model_state, best_state_dict)
    /\ decays' = decays + 1
    /\ decay_loads' = decay_loads + 1

\* decay_lr(model, best_state_dict): one objective call, and with restore_best
\* the load and a second objective call.
decay_lr ==
    /\ objective_calls' = objective_calls + (IF restore_best THEN 2 ELSE 1)
    /\ model_training' = ModeAfterObjective(model_training, training_status)
    /\ model_state' = IF restore_best
                        THEN load_state_dict(model_state, best_state_dict)
                        ELSE model_state
    /\ decays' = decays + 1
    /\ decay_loads' = IF restore_best THEN decay_loads + 1 ELSE decay_loads

\* a is a better objective value than b, compared as numbers in the direction
\* of maximize.
Better(a, b) == IF maximize THEN Less(b, a) ELSE Less(a, b)

\* a is better than b by more than tolerance, compared as numbers: maximizing
\* a > b + tolerance, minimizing a < b - tolerance.
BetterByTolerance(a, b) ==
    IF maximize THEN Less(Minus(b, -tolerance), a) ELSE Less(a, Minus(b, tolerance))

\* History of the evaluations whose result the generator keeps (the initial one
\* and the per-interval ones): the best value observed with the model states it
\* was observed in, and the latest evaluation that beat every earlier such
\* evaluation by more than tolerance, with the model state it was made in.
Observe(v, first) ==
    /\ top_objective' = IF first \/ Better(v, top_objective) THEN v ELSE top_objective
    /\ top_states' = IF first \/ Better(v, top_objective) THEN {model_state}
                     ELSE IF v = top_objective THEN top_states \cup {model_state}
                     ELSE top_states
    /\ ref_objective' = IF first \/ BetterByTolerance(v, ref_objective)
                          THEN v ELSE ref_objective
    /\ ref_state' = IF first \/ BetterByTolerance(v, ref_objective)
                      THEN model_state ELSE ref_state
    /\ last_result' = v
    /\ all_improving' = IF first THEN v.k = "fin"
                         ELSE all_improving /\ v.k = "fin" /\ BetterByTolerance(v, ref_objective)
    /\ total_evals' = IF first THEN 0 ELSE total_evals + 1

\* Mutant of log_objective: a tracker that is only handed finite values.
log_objective_if_finite(value) ==
    /\ tracker_calls' = IF value.k = "fin" THEN tracker_calls + 1 ELSE tracker_calls
    /\ tracker_last' = IF value.k = "fin" THEN value ELSE tracker_last
    /\ tracker_nonfinite' = tracker_nonfinite
    /\ tracker_finalized' = tracker_finalized

\* Mutant of log_objective: the value reported to the tracker twice.
log_objective_twice(value) ==
    /\ tracker_calls' = tracker_calls + 2
    /\ tracker_last' = value
    /\ tracker_nonfinite' =
          IF value.k = "fin" THEN tracker_nonfinite ELSE tracker_nonfinite + 2
    /\ tracker_finalized' = tracker_finalized

\* tracker.log_objective(value)
log_objective(value) ==
    /\ tracker_calls' = tracker_calls + 1
    /\ tracker_last' = value
    /\ tracker_nonfinite' =
          IF value.k = "fin" THEN tracker_nonfinite ELSE tracker_nonfinite + 1
    /\ tracker_finalized' = tracker_finalized

\* The first advance of the generator, up to the decay-cycle loop: the initial
\* evaluation, the first snapshot and the scheduler set-up.
Begin ==
    /\ pc = "start"
    /\ training_status' = model_training
    /\ epoch' = start
    /\ \E v \in ObjectiveValues :
        /\ best_objective' = v
        /\ current_objective' = v
        /\ Observe(v, TRUE)
    /\ objective_calls' = objective_calls + 1
    /\ model_training' = ModeAfterObjective(model_training, model_training)
    /\ best_state_dict' = copy_state(model_state)
    /\ snapshot_aliased' = copy_shares_storage
    /\ reduce_lr_on_plateau' =
          \/ ~scheduler.tuple /\ scheduler.first = "ReduceLROnPlateau"
          \/ scheduler.tuple /\ scheduler.second = "ReduceLROnPlateau"
    /\ warmup' = scheduler.tuple
    /\ number_warmup_epochs' =
          IF scheduler.tuple /\ scheduler.first = "None" THEN 0 ELSE number_warmup_epochs
    /\ repeat' = 0
    /\ pc' = "for"
    /\ UNCHANGED <<args, model_state, trackerv, schedv, decayv, cyclev,
                   patience_counter, i, final_loads, last_eval_epoch, ended, yieldv>>

\* for repeat in range(lr_decay_steps): a further decay cycle begins.
ForRepeat ==
    /\ pc = "for"
    /\ repeat < lr_decay_steps
    /\ patience_counter' = 0
    /\ cycle_nonimp' = TRUE /\ cycle_evals' = 0 /\ cycle_ticks' = 0
    /\ ended' = "no"
    /\ pc' = "while"
    /\ UNCHANGED <<args, model, best, setup, trackerv, schedv, decayv, epoch,
                   current_objective, repeat, i, objective_calls, observed,
                   final_loads, last_eval_epoch, yieldv>>

\* The while condition holds: the next interval of ticks begins.
EnterInterval ==
    /\ pc = "while"
    /\ WhileCondition
    /\ i' = 0
    /\ pc' = "tick"
    /\ UNCHANGED <<args, model, best, setup, trackerv, schedv, decayv, cyclev,
                   epoch, current_objective, repeat, patience_counter,
                   objective_calls, observed, final_loads, last_eval_epoch, ended,
                   yieldv>>

\* One pass of `for _ in range(interval)`: count the epoch, report to the
\* tracker, then either finalize and return on a non-finite objective or yield.
Tick ==
    /\ pc = "tick"
    /\ i < interval
    /\ epoch' = epoch + 1
    /\ IF tracker THEN log_objective(current_objective) ELSE UNCHANGED trackerv
    /\ IF ~isfinite(current_objective)
         THEN /\ finalize
              /\ ended' = "nonfinite"
              /\ UNCHANGED <<i, cycle_ticks, yieldv>>
         ELSE /\ pc' = "yield"
              /\ yielded' = Yielded(epoch', current_objective)
              /\ yields' = yields + 1
              /\ i' = i + 1
              /\ cycle_ticks' = cycle_ticks + 1
              /\ UNCHANGED <<model, objective_calls, final_loads, ended>>
    /\ UNCHANGED <<args, best, setup, schedv, decayv, cycle_nonimp, cycle_evals,
                   current_objective, repeat, patience_counter, observed,
                   last_eval_epoch>>

\* The caller's loop body while the generator is suspended: a training step,
\* which may leave the model in either mode, then the generator is resumed.
CallerStep ==
    /\ pc = "yield"
    /\ model_state' = TrainedState(epoch)
    /\ \E m \in (IF caller_sets_mode THEN BOOLEAN ELSE {model_training}) :
          model_training' = m
    /\ best_state_dict' = IF snapshot_aliased THEN model_state' ELSE best_state_dict
    /\ yielded' = NoYield
    /\ pc' = "tick"
    /\ UNCHANGED <<args, best_objective, snapshot_aliased, setup, trackerv, schedv,
                   decayv, cyclev, epoch, current_objective, repeat,
                   patience_counter, i, objective_calls, observed, final_loads,
                   last_eval_epoch, ended, yields>>

\* Mutant of SchedulerStep: the warm-up branch taken up to and including
\* epoch = number_warmup_epochs.
SchedulerStepInclusive(cur) ==
    IF scheduler = NoScheduler
      THEN [which |-> "none", arg |-> NoArg]
    ELSE IF warmup /\ epoch <= number_warmup_epochs
      THEN [which |-> "warmup", arg |-> NoArg]
    ELSE IF reduce_lr_on_plateau
      THEN [which |-> "main", arg |-> cur]
    ELSE IF ~warmup
      THEN [which |-> "main", arg |-> NoArg]
    ELSE IF scheduler.second # "None"
      THEN [which |-> "main", arg |-> NoArg]
    ELSE [which |-> "none", arg |-> NoArg]

\* Mutant of SchedulerStep: the main slot stepped without the check that it
\* is present.
SchedulerStepUnchecked(cur) ==
    IF scheduler = NoScheduler
      THEN [which |-> "none", arg |-> NoArg]
    ELSE IF warmup /\ epoch < number_warmup_epochs
      THEN [which |-> "warmup", arg |-> NoArg]
    ELSE IF reduce_lr_on_plateau
      THEN [which |-> "main", arg |-> cur]
    ELSE [which |-> "main", arg |-> NoArg]

\* The scheduler step after a per-interval evaluation that returned cur: which
\* scheduler is stepped ("warmup" is scheduler[0], "main" is scheduler or
\* scheduler[1], "none" is no step) and with which argument.
SchedulerStep(cur) ==
    IF scheduler = NoScheduler
      THEN [which |-> "none", arg |-> NoArg]
    ELSE IF warmup /\ epoch < number_warmup_epochs
      THEN [which |-> "warmup", arg |-> NoArg]
    ELSE IF reduce_lr_on_plateau
      THEN [which |-> "main", arg |-> cur]
    ELSE IF ~warmup
      THEN [which |-> "main", arg |-> NoArg]
    ELSE IF scheduler.second # "None"
      THEN [which |-> "main", arg |-> NoArg]
    ELSE [which |-> "none", arg |-> NoArg]

\* cur does not beat bst by more than tolerance, compared as numbers:
\* maximizing cur <= bst + tolerance, minimizing cur >= bst - tolerance.
WithinTolerance(cur, bst) ==
    /\ cur.k # "nan" /\ bst.k # "nan"
    /\ IF maximize
         THEN ~Less(Minus(bst, -tolerance), cur)
         ELSE ~Less(cur, Minus(bst, tolerance))

\* After interval ticks: re-evaluate the objective, step the scheduler, and
\* either record a new best (snapshot, best objective, patience reset) or count
\* one more evaluation without improvement.
Evaluate ==
    /\ pc = "tick"
    /\ i = interval
    /\ \E v \in ObjectiveValues :
        /\ current_objective' = v
        /\ Observe(v, FALSE)
        /\ LET s == SchedulerStep(v) IN
            /\ warmup_steps' = IF s.which = "warmup" THEN warmup_steps + 1 ELSE warmup_steps
            /\ warm_epochs' = IF s.which = "warmup" THEN warm_epochs \cup {epoch} ELSE warm_epochs
            /\ main_steps' = IF s.which = "main" THEN main_steps + 1 ELSE main_steps
            /\ last_step_arg' = IF s.which = "none" THEN last_step_arg ELSE s.arg
        /\ IF Improved(v, best_objective)
             THEN /\ best_state_dict' = copy_state(model_state)
                  /\ snapshot_aliased' = copy_shares_storage
                  /\ best_objective' = v
                  /\ patience_counter' = 0
             ELSE /\ patience_counter' = patience_counter + 1
                  /\ UNCHANGED best
        /\ cycle_nonimp' = (cycle_nonimp /\ WithinTolerance(v, best_objective))
    /\ objective_calls' = objective_calls + 1
    /\ model_training' = ModeAfterObjective(model_training, training_status)
    /\ last_eval_epoch' = epoch
    /\ cycle_evals' = cycle_evals + 1
    /\ pc' = "while"
    /\ UNCHANGED <<args, model_state, setup, trackerv, decayv, cycle_ticks, epoch,
                   repeat, i, final_loads, ended, yieldv>>

\* The while condition fails: the decay cycle ends, with a decay transition if
\* the condition after the loop holds, and the for loop moves on.
EndCycle ==
    /\ pc = "while"
    /\ ~WhileCondition
    /\ IF DecayCondition
         THEN decay_lr
         ELSE UNCHANGED <<model, objective_calls, decays, decay_loads>>
    /\ exhausted' = IF patience_counter >= patience /\ epoch < max_iter
                      THEN exhausted + 1 ELSE exhausted
    /\ late_decays' = IF DecayCondition /\ current_objective.k # "fin"
                       THEN late_decays + 1 ELSE late_decays
    /\ ended' = "while"
    /\ repeat' = repeat + 1
    /\ pc' = "for"
    /\ UNCHANGED <<args, best, setup, trackerv, schedv, cyclev, epoch,
                   current_objective, patience_counter, i, observed, final_loads,
                   last_eval_epoch, yieldv>>

\* The decay cycles are over: finalize, and the generator returns.
Finalize ==
    /\ pc = "for"
    /\ repeat >= lr_decay_steps
    /\ finalize
    /\ UNCHANGED <<args, best, setup, trackerv, schedv, decayv, cyclev, epoch,
                   current_objective, repeat, patience_counter, i, observed,
                   last_eval_epoch, ended, yieldv>>

Next ==
    \/ Begin
    \/ ForRepeat
    \/ EnterInterval
    \/ Tick
    \/ CallerStep
    \/ Evaluate
    \/ EndCycle
    \/ Finalize

Spec == Init /\ [][Next]_vars

SpecMode == InitMode /\ [][Next]_vars

SpecSched == InitSched /\ [][Next]_vars

\* The runs in which the caller keeps resuming the generator and every call of
\* the objective returns: no step that can be taken is put off for ever.
SpecFair == Init /\ [][Next]_vars /\ WF_vars(Next)

\* ================================================================= claims
\* The generator has returned.
Terminated == pc = "done"

\* The objective value the generator holds is NaN or an infinity.
NonFinite(x) == x.k \in {"nan", "inf"}

\* C1 (as stated): after a run to termination with restore_best, the model is
\* in a state in which the best of all observed objective values was observed.
C1_BestObservedRestored ==
    (Terminated /\ restore_best) => model_state \in top_states

\* C1 (amended): after a run to termination with restore_best, the model is in
\* the state of the latest evaluation that beat every earlier recorded best by
\* more than tolerance (the initial evaluation if none did), that evaluation's
\* value is best_objective, no observed value beats it by more than tolerance,
\* and with tolerance = 0 it is the best observed value.
C1_BestRecordedRestored ==
    (Terminated /\ restore_best) =>
        /\ model_state = ref_state
        /\ best_objective = ref_objective
        /\ ~BetterByTolerance(top_objective, best_objective)
        /\ (tolerance = 0 => model_state \in top_states)

\* C1 witness: a terminated run with a positive tolerance in which a later
\* evaluation became the best and training went on for two more ticks, so the
\* restore put back an intermediate state.
C1_Witness ==
    /\ Terminated /\ restore_best /\ tolerance > 0
    /\ ref_state > 0
    /\ epoch - start >= ref_state + 2
    /\ model_state = ref_state

\* C2 (as stated): with start <= max_iter the epoch counter never exceeds
\* max_iter.
C2_EpochBounded ==
    start <= max_iter => epoch <= max_iter

\* C3 (as stated): the tracker never receives a non-finite objective.
C3_TrackerNeverNonFinite ==
    tracker_nonfinite = 0

\* C3 (amended): on the tick that finds current_objective non-finite the
\* tracker has already been called with that value; it is the tracker's last
\* call, so the tracker receives at most one non-finite value, and every tick
\* of a run with a tracker is reported.
C3_TrackerLoggedBeforeCheck ==
    /\ tracker_nonfinite <= 1
    /\ tracker_nonfinite = 1 =>
          /\ Terminated /\ ended = "nonfinite"
          /\ tracker_last = current_objective
          /\ NonFinite(current_objective)
    /\ (tracker /\ ended = "nonfinite") => tracker_nonfinite = 1
    /\ tracker => tracker_calls = epoch - start

\* C3 witness: a run with a tracker that ended on a non-finite per-interval
\* evaluation, after earlier finite reports.
C3_Witness ==
    /\ tracker /\ Terminated /\ ended = "nonfinite"
    /\ tracker_calls >= 2
    /\ tracker_last = NaN

\* C4: once the objective held by the generator is non-finite no further tick
\* is yielded, and the next tick ends the run.
C4_NoYieldAfterNonFinite ==
    [][(pc # "start" /\ NonFinite(current_objective)) =>
          /\ pc' # "yield"
          /\ (epoch' # epoch => pc' = "done")]_vars

\* C4 witness: a run ended by a non-finite per-interval evaluation while
\* patience was not exhausted and a further decay cycle remained.
C4_Witness ==
    /\ Terminated /\ ended = "nonfinite"
    /\ last_eval_epoch > 0
    /\ patience_counter < patience
    /\ repeat + 1 < lr_decay_steps

\* C5 (as stated): a run with lr_decay_steps = n >= 1 makes at most n - 1
\* decay transitions.
C5_NoDecayAfterFinalCycle ==
    lr_decay_steps >= 1 => decays <= lr_decay_steps - 1

\* C6: with lr_decay_steps = 2, patience = 2 and restore_best, a terminated
\* run in which patience ran out in both cycles before max_iter has made
\* exactly two decay transitions, each with a load of best_state_dict.
C6_ScenarioB ==
    (Terminated /\ lr_decay_steps = 2 /\ patience = 2 /\ restore_best /\ exhausted = 2) =>
        decays = 2 /\ decay_loads = 2

\* C6 witness: such a run, ended by finalize after the second cycle.
C6_Witness ==
    /\ Terminated /\ lr_decay_steps = 2 /\ patience = 2 /\ restore_best
    /\ exhausted = 2 /\ ended = "while"
    /\ decays = 2 /\ final_loads = 1

\* The step is a per-interval evaluation.
EvaluationStep == pc = "tick" /\ i = interval /\ pc' = "while"

\* C7: with a scheduler pair every per-interval evaluation takes exactly one
\* branch: below number_warmup_epochs one zero-argument step of the warm-up
\* scheduler and none of the main one; otherwise no warm-up step and one step
\* of the main scheduler (with current_objective iff it is ReduceLROnPlateau)
\* or none if the main slot is None. No other step of the generator steps a
\* scheduler, and after an evaluation that took the main branch the warm-up
\* scheduler is not stepped again.
C7_WarmupMainHandOff ==
    /\ [][(EvaluationStep /\ scheduler.tuple) =>
            IF epoch < number_warmup_epochs
              THEN /\ warmup_steps' = warmup_steps + 1
                   /\ main_steps' = main_steps
                   /\ last_step_arg' = NoArg
              ELSE /\ warmup_steps' = warmup_steps
                   /\ IF scheduler.second = "None"
                        THEN main_steps' = main_steps /\ last_step_arg' = last_step_arg
                        ELSE /\ main_steps' = main_steps + 1
                             /\ last_step_arg' =
                                   IF scheduler.second = "ReduceLROnPlateau"
                                     THEN current_objective' ELSE NoArg]_vars
    /\ [][~EvaluationStep => UNCHANGED <<warmup_steps, main_steps, last_step_arg>>]_vars
    /\ [][(last_eval_epoch > 0 /\ last_eval_epoch >= number_warmup_epochs) =>
            warmup_steps' = warmup_steps]_vars

\* C7 witness: a pair with a ReduceLROnPlateau main scheduler after the
\* hand-off: both schedulers have been stepped, the last step with the
\* objective value.
C7_Witness ==
    /\ scheduler.tuple /\ scheduler.second = "ReduceLROnPlateau"
    /\ warmup_steps >= 1 /\ main_steps >= 2
    /\ last_step_arg = current_objective

\* Scenario C: scheduler = (warmup, None), number_warmup_epochs epochs of
\* warm-up, start = 0 and interval = 1.
ScenarioC ==
    /\ scheduler = [tuple |-> TRUE, first |-> "LambdaLR", second |-> "None"]
    /\ number_warmup_epochs = WarmupEpochs
    /\ start = 0 /\ interval = 1

\* C8 (as stated): in scenario C the warm-up scheduler is stepped at the
\* evaluation of each of the epochs 1..number_warmup_epochs reached so far and
\* at no other, and the main slot is never stepped.
C8_WarmupThroughLastEpoch ==
    ScenarioC =>
        /\ warm_epochs = {e \in 1..last_eval_epoch : e <= WarmupEpochs}
        /\ main_steps = 0

\* C8 (amended): in scenario C the warm-up scheduler is stepped at the
\* evaluation of each of the epochs 1..number_warmup_epochs - 1 reached so far
\* and at no other (not at epoch number_warmup_epochs), and the main slot is
\* never stepped.
C8_WarmupBelowLastEpoch ==
    ScenarioC =>
        /\ warm_epochs = {e \in 1..last_eval_epoch : e < WarmupEpochs}
        /\ warmup_steps = Cardinality(warm_epochs)
        /\ main_steps = 0

\* C8 witness: scenario C past the evaluation of epoch number_warmup_epochs.
C8_Witness ==
    /\ ScenarioC
    /\ last_eval_epoch > WarmupEpochs
    /\ warm_epochs = 1..(WarmupEpochs - 1)

\* C9 (as stated): with switch_mode every step that evaluates the objective
\* leaves the model's mode as it was before the step.
C9_ModePreserved ==
    [][(switch_mode /\ objective_calls' # objective_calls) =>
          model_training' = model_training]_vars

\* C10 (as stated): patience_counter stays within 0..patience; in a decay
\* cycle without an improving evaluation it counts the evaluations of the
\* cycle, and the cycle ends exactly when it reaches patience, after patience *
\* interval ticks, if epoch < max_iter: neither the while loop nor a return
\* from inside it ends such a cycle after an evaluation with patience_counter
\* below patience.
C10_PatienceExact ==
    /\ patience_counter \in 0..patience
    /\ pc \in {"tick", "yield"} => patience_counter < patience
    /\ cycle_nonimp =>
          /\ patience_counter = cycle_evals
          /\ pc = "while" => cycle_ticks = cycle_evals * interval
          /\ (ended = "while" /\ epoch < max_iter) =>
                patience_counter = patience /\ cycle_ticks = patience * interval
          /\ (ended = "nonfinite" /\ cycle_evals >= 1) =>
                patience_counter = patience /\ cycle_ticks = patience * interval

\* C10 (amended): the same for finite objective values: patience_counter stays
\* within 0..patience; in a decay cycle without an improving evaluation, all
\* values finite, it counts the evaluations of the cycle, and the cycle ends
\* exactly when it reaches patience, after patience * interval ticks, if
\* epoch < max_iter.
C10_PatienceExactFinite ==
    /\ patience_counter \in 0..patience
    /\ pc \in {"tick", "yield"} => patience_counter < patience
    /\ (cycle_nonimp /\ current_objective.k = "fin") =>
          /\ patience_counter = cycle_evals
          /\ pc = "while" => cycle_ticks = cycle_evals * interval
          /\ ended # "nonfinite"
          /\ (ended = "while" /\ epoch < max_iter) =>
                patience_counter = patience /\ cycle_ticks = patience * interval

\* C10 witness: a cycle of finite, non-improving evaluations ended by
\* patience = 2 at interval = 2, after four ticks and before max_iter.
C10_Witness ==
    /\ ended = "while" /\ cycle_nonimp /\ current_objective.k = "fin"
    /\ epoch < max_iter
    /\ patience = 2 /\ interval = 2
    /\ patience_counter = 2 /\ cycle_ticks = 4

\* C11: in a maximizing run with patience >= 1 whose evaluations are all finite
\* and each exceed the best before them by more than tolerance, patience_counter
\* is 0 after every evaluation, the inner loop is only ever left with
\* epoch >= max_iter, the run does not end below max_iter, and no decay
\* transition occurs.
C11_ImprovingRunsToMaxIter ==
    (maximize /\ patience >= 1 /\ pc # "start" /\ all_improving) =>
        /\ patience_counter = 0
        /\ exhausted = 0
        /\ decays = 0
        /\ ended # "nonfinite"
        /\ (ended = "while" => epoch >= max_iter)
        /\ (Terminated /\ lr_decay_steps >= 1 => epoch >= max_iter)

\* A finished maximizing run of two improving evaluations, with decay steps left
\* to take had the patience run out.
C11_Witness ==
    /\ maximize /\ patience >= 1 /\ all_improving /\ Terminated
    /\ total_evals >= 2
    /\ lr_decay_steps = MaxDecaySteps
    /\ epoch >= max_iter /\ max_iter > start

\* C12: with lr_decay_steps >= 1, a terminated run either was ended by the
\* non-finite check on a non-finite current_objective, or left the inner loop of
\* its last decay cycle with the patience exhausted or with epoch >= max_iter.
C12_TerminationReason ==
    (Terminated /\ lr_decay_steps >= 1) =>
        \/ ended = "nonfinite" /\ NonFinite(current_objective)
        \/ /\ ended = "while" /\ repeat = lr_decay_steps
           /\ (patience_counter >= patience \/ epoch >= max_iter)

\* A run of two decay cycles that ended on exhausted patience alone.
C12_Witness ==
    /\ Terminated /\ lr_decay_steps = MaxDecaySteps /\ patience >= 1
    /\ patience_counter >= patience /\ epoch < max_iter
    /\ ~NonFinite(current_objective)

\* C13: the generator is suspended exactly once per tick and nowhere else; the
\* k-th yield carries epoch = start + k; one evaluation follows every interval
\* consecutive ticks; and the objective yielded is the result of the most
\* recent evaluation, which is current_objective.
C13_OneYieldPerTick ==
    /\ (pc = "yield") = (yielded # NoYield)
    /\ pc # "start" =>
          epoch - start = yields + (IF ended = "nonfinite" THEN 1 ELSE 0)
    /\ pc = "yield" =>
          /\ yielded.epoch = start + yields
          /\ yielded.objective = last_result
          /\ yielded.objective = current_objective
    /\ pc \in {"tick", "yield"} => yields = total_evals * interval + i
    /\ pc \in {"for", "while", "done"} => yields = total_evals * interval

\* The third yield of a run with interval 2 and a start above zero, after one
\* evaluation that found no new best.
C13_Witness ==
    /\ pc = "yield" /\ interval = 2 /\ start = MaxStart
    /\ yields = 3 /\ total_evals = 1
    /\ yielded.objective # best_objective

\* C14: with a tracker, log_objective is called exactly once in every tick, with
\* the current_objective of that tick, and at no other time, so that at every
\* suspension the calls number epoch - start; nothing else is ever called on
\* the tracker, and without a tracker nothing is called at all.
C14_TrackerOncePerTick ==
    /\ [](~tracker_finalized)
    /\ [](~tracker => tracker_calls = 0)
    /\ [](tracker /\ pc = "yield" =>
            tracker_calls = epoch - start /\ tracker_last = yielded.objective)
    /\ [][tracker =>
            IF epoch' # epoch
              THEN tracker_calls' = tracker_calls + 1 /\ tracker_last' = current_objective
              ELSE UNCHANGED <<tracker_calls, tracker_last>>]_vars

\* The third suspension of a tracked run, past one evaluation.
C14_Witness ==
    /\ tracker /\ pc = "yield" /\ interval = 2 /\ start = MaxStart
    /\ tracker_calls = 3 /\ total_evals = 1
    /\ tracker_last = yielded.objective

\* The parameter state the caller's last training step left: the state of the
\* last resumed tick, or the state at construction before any.
LastTrained == IF pc = "yield" THEN yields - 1 ELSE yields

\* C15: the controller changes the model's parameter state only by loading
\* best_state_dict at a decay transition or at finalization, and only with
\* restore_best; every other change is the caller's training step. So without
\* restore_best, and at any suspension no decay transition has preceded, the
\* model is in the state the caller last left it in.
C15_StateChangedOnlyByRestore ==
    /\ [][model_state' # model_state =>
            \/ pc = "yield" /\ pc' = "tick"
            \/ /\ restore_best
               /\ model_state' = best_state_dict
               /\ decays' = decays + 1 \/ pc' = "done"]_vars
    /\ [](~restore_best => model_state = LastTrained)
    /\ [](pc = "yield" /\ decays = 0 => model_state = LastTrained)

\* A suspension right after a decay transition that put back a best state older
\* than the caller's last training step.
C15_Witness ==
    /\ restore_best /\ pc = "yield" /\ decay_loads >= 1
    /\ model_state = best_state_dict
    /\ model_state # LastTrained

C17_OneRestoreAfterNonFinite ==
    (Terminated /\ restore_best /\ ended = "nonfinite" /\ total_evals >= 1) =>
        /\ late_decays = 0
        /\ final_loads = 1

\* C18: in a run whose initial evaluation was finite, which every run with a
\* per-interval evaluation is, best_objective is finite in every state: no
\* non-finite evaluation is recorded as the best.
C18_BestAlwaysFinite ==
    total_evals >= 1 => ~NonFinite(best_objective)

\* C19: best_state_dict is the model state captured at the evaluation that
\* produced best_objective; every update of best_objective moves it by more
\* than tolerance in the improvement direction; and neither a decay transition
\* nor the start of a new decay cycle resets either of them.
C19_BestMonotone ==
    /\ [](pc # "start" => best_objective = ref_objective /\ best_state_dict = ref_state)
    /\ [][(pc # "start" /\ best_objective' # best_objective) =>
            /\ BetterByTolerance(best_objective', best_objective)
            /\ best_objective' = current_objective'
            /\ best_state_dict' = model_state]_vars
    /\ [][(pc \in {"for", "while"}) =>
            (best_objective' = best_objective /\ best_state_dict' = best_state_dict)]_vars

\* A new best found at an evaluation that follows a decay transition.
C19_Witness ==
    /\ pc = "while" /\ decays >= 1 /\ cycle_evals >= 1
    /\ patience_counter = 0
    /\ best_objective = current_objective
    /\ best_state_dict = model_state /\ best_state_dict >= 2
    /\ top_objective = best_objective

\* max(0, max_iter - start) rounded up to a multiple of interval.
TickBound ==
    IF max_iter <= start THEN 0
    ELSE ((max_iter - start + interval - 1) \div interval) * interval

\* C20: when the caller keeps resuming and the objective keeps returning, the
\* generator eventually finalizes and returns, and it never yields more ticks
\* than max(0, max_iter - start) rounded up to a multiple of interval.
C20_Terminates ==
    /\ <>Terminated
    /\ [](yields <= TickBound)

\* A finished run that yielded the whole bound, one tick past max_iter.
C20_Witness ==
    /\ Terminated /\ interval = 2
    /\ yields = TickBound /\ yields > max_iter - start

====
